---- MODULE Spec2Model ----
(***************************************************************************)
(* Model of subsets_zusammenfuehren.py: the pack / unpack engine for the   *)
(* SubSet nodes of an .ls3 scene file and its optional .lsb geometry blob. *)
(*                                                                         *)
(* Data representation.  A byte string (bytes) or an element list is a     *)
(* sequence of runs <<kind, id, lo, hi>>:                                  *)
(*   <<"V", s, lo, hi>>  units lo..hi-1 of the vertex block s (in a byte   *)
(*                       string the unit is one byte, 40 per vertex; in a  *)
(*                       list of Vertex elements the unit is one element)  *)
(*   <<"W", v, 0, 2>>    one little-endian 16-bit word of value v.         *)
(* A run list is a lossless encoding of the bytes: slicing cuts runs,      *)
(* concatenation joins adjacent runs of one block, so equal byte strings   *)
(* have equal encodings.                                                   *)
(* A Face element of the inline layout is <<a, b, c, canon>>: the three    *)
(* integers its "i" attribute parses to, and whether the attribute text is *)
(* their canonical rendering "a;b;c".                                      *)
(***************************************************************************)
EXTENDS Integers, Sequences, FiniteSets, TLC

VARIABLES
  argv_mode,         \* sys.argv[1]
  argv_left,         \* how many entries of sys.argv[2:] are still to be processed
  disk_ls3,          \* the SubSet nodes of the .ls3 file, in document order
  disk_lsb,          \* the .lsb file: [some |-> FALSE] when it does not exist
  pc,                \* position in the body of the loop over the files
  subset_nodes,      \* line 194
  lsb_data,          \* lines 200-205 (None is [some |-> FALSE, b |-> <<>>])
  subsets_by_key,    \* line 190: insertion-ordered mapping, a sequence of entries
  lsb_offset,        \* line 191
  grp,               \* position of the loop of line 236 in subsets_by_key.values()
  new_subset_nodes,  \* line 235
  new_lsb_data,      \* line 234
  log                \* what the run printed about each file it finished

vars == <<argv_mode, argv_left, disk_ls3, disk_lsb, pc, subset_nodes, lsb_data,
          subsets_by_key, lsb_offset, grp, new_subset_nodes, new_lsb_data, log>>

\* ----------------------------------------------------------------- constants
Ceiling == 32768
VertexSize == 40
IndexSize == 2
FaceSize == 6
MaxIndex == 65535

\* ------------------------------------------------------------- byte strings
SegLen(e) == e[4] - e[3]

RECURSIVE BLen(_)
BLen(b) == IF b = <<>> THEN 0 ELSE SegLen(Head(b)) + BLen(Tail(b))

\* a + b on bytes / lists
Cat(a, b) ==
  IF a = <<>> THEN b
  ELSE IF b = <<>> THEN a
  ELSE LET x == a[Len(a)]
           y == b[1]
       IN IF x[1] = "V" /\ y[1] = "V" /\ x[2] = y[2] /\ x[4] = y[3]
          THEN SubSeq(a, 1, Len(a) - 1) \o << <<"V", x[2], x[3], y[4]>> >> \o Tail(b)
          ELSE a \o b

RECURSIVE Drop(_, _)
Drop(b, n) ==
  IF n <= 0 \/ b = <<>> THEN b
  ELSE LET e == Head(b)
       IN IF SegLen(e) <= n THEN Drop(Tail(b), n - SegLen(e))
          ELSE << <<e[1], e[2], e[3] + n, e[4]>> >> \o Tail(b)

RECURSIVE Take(_, _)
Take(b, n) ==
  IF n <= 0 \/ b = <<>> THEN <<>>
  ELSE LET e == Head(b)
       IN IF SegLen(e) <= n THEN <<e>> \o Take(Tail(b), n - SegLen(e))
          ELSE << <<e[1], e[2], e[3], e[3] + n>> >>

\* a slice bound as Python normalises it: negative counts from the end, and
\* the result is clamped to 0..length
PyBound(i, length) ==
  IF i < 0 THEN (IF length + i < 0 THEN 0 ELSE length + i)
  ELSE IF i > length THEN length ELSE i

\* b[lo:hi]
Slice(b, lo, hi) ==
  LET l == PyBound(lo, BLen(b))
      h == PyBound(hi, BLen(b))
  IN Take(Drop(b, l), h - l)

Word(v) == <<"W", v, 0, IndexSize>>

VRun(s, lo, hi) == IF hi > lo THEN << <<"V", s, lo, hi>> >> ELSE <<>>

\* facestruct.pack(a, b, c); struct.error outside 0..65535
PackOK(f) == \A k \in 1..3 : f[k] >= 0 /\ f[k] <= MaxIndex

facestruct_pack(f) == <<Word(f[1]), Word(f[2]), Word(f[3])>>

LSB_SEPARATOR == facestruct_pack(<<0, 0, 0>>)

XML_SEPARATOR == <<0, 0, 0, TRUE>>

\* facestruct.iter_unpack(b): the buffer must be a whole number of records
IterUnpackOK(b) == BLen(b) % FaceSize = 0 /\ \A i \in 1..Len(b) : b[i] = Word(b[i][2])

iter_unpack(b) ==
  [i \in 1..(Len(b) \div 3) |-> <<b[3 * i - 2][2], b[3 * i - 1][2], b[3 * i][2]>>]

Max2(a, b) == IF a >= b THEN a ELSE b

Max3(f) == Max2(f[1], Max2(f[2], f[3]))

\* max(max(faceindexes) for faceindexes in facedata), facedata not empty
RECURSIVE MaxIndexOf(_)
MaxIndexOf(facedata) ==
  IF Len(facedata) = 1 THEN Max3(facedata[1])
  ELSE Max2(Max3(facedata[1]), MaxIndexOf(Tail(facedata)))

Shift(f, d) == <<f[1] + d, f[2] + d, f[3] + d>>

\* ---------------------------------------------------------------- results
Failed(e) == [err |-> e, nodes |-> <<>>, lsb |-> <<>>]

\* --------------------------------------------------------------------- pack
\* pack's locals at function entry
PackStart ==
  [err |-> "", vert_idx_offset |-> 0, new_vertex_data |-> <<>>,
   new_tri_data |-> <<>>, new_lsb_data |-> <<>>, new_subset_nodes |-> <<>>]

\* flush()
flush(st, subsets, orig) ==
  LET first == subsets[1].node
      new_node ==
        IF orig.some
        THEN [first EXCEPT !.MeshV = BLen(st.new_vertex_data) \div VertexSize,
                           !.MeshI = BLen(st.new_tri_data) \div IndexSize]
        ELSE [first EXCEPT !.verts = st.new_vertex_data,
                           !.tris = st.new_tri_data]
  IN [st EXCEPT !.new_lsb_data =
                   IF orig.some
                   THEN Cat(Cat(@, st.new_vertex_data), st.new_tri_data)
                   ELSE @,
                !.new_vertex_data = <<>>,
                !.new_tri_data = <<>>,
                !.new_subset_nodes = Append(@, new_node),
                !.vert_idx_offset = 0]

\* num_vertices of one input subset
NumVertices(subset, orig) ==
  IF orig.some THEN (subset.verts[2] - subset.verts[1]) \div VertexSize
  ELSE BLen(subset.verts)

\* line 71: the test that triggers an early flush
NeedsFlush(offset, num_vertices) == offset + num_vertices >= Ceiling

\* the assertion with the bound included
FitsCeilingInclusive(offset, num_vertices) == offset + num_vertices <= Ceiling

\* line 73: the assertion after the flush
FitsCeiling(offset, num_vertices) == offset + num_vertices < Ceiling

\* the rewritten faces of a later piece, binary layout
RECURSIVE PackShifted(_, _)
PackShifted(facedata, d) ==
  IF facedata = <<>> THEN <<>>
  ELSE facestruct_pack(Shift(facedata[1], d)) \o PackShifted(Tail(facedata), d)

\* the rewritten faces of a later piece, inline layout
ShiftFaces(tris, d) ==
  [i \in 1..Len(tris) |-> <<tris[i][1] + d, tris[i][2] + d, tris[i][3] + d, TRUE>>]

\* one iteration of pack's loop over the subsets
PackStep(st0, subsets, subset, orig) ==
  LET n == NumVertices(subset, orig)
      st1 == IF NeedsFlush(st0.vert_idx_offset, n) THEN flush(st0, subsets, orig) ELSE st0
      off == st1.vert_idx_offset
  IN IF ~FitsCeiling(off, n) THEN [st1 EXCEPT !.err = "AssertionError"]
     ELSE IF orig.some
     THEN LET v == Slice(orig.b, subset.verts[1], subset.verts[2])
              t == Slice(orig.b, subset.tris[1], subset.tris[2])
          IN IF off = 0
             THEN [st1 EXCEPT !.new_vertex_data = Cat(@, v),
                              !.new_tri_data = Cat(@, t),
                              !.vert_idx_offset = @ + n]
             ELSE IF ~IterUnpackOK(t) THEN [st1 EXCEPT !.err = "struct.error"]
             ELSE IF \E i \in 1..Len(iter_unpack(t)) :
                        ~PackOK(Shift(iter_unpack(t)[i], off))
             THEN [st1 EXCEPT !.err = "struct.error"]
             ELSE [st1 EXCEPT !.new_vertex_data = Cat(@, v),
                              !.new_tri_data =
                                 Cat(Cat(@, LSB_SEPARATOR), PackShifted(iter_unpack(t), off)),
                              !.vert_idx_offset = @ + n]
     ELSE IF off = 0
          THEN [st1 EXCEPT !.new_vertex_data = Cat(@, subset.verts),
                           !.new_tri_data = @ \o subset.tris,
                           !.vert_idx_offset = @ + n]
          ELSE [st1 EXCEPT !.new_vertex_data = Cat(@, subset.verts),
                           !.new_tri_data =
                              Append(@, XML_SEPARATOR) \o ShiftFaces(subset.tris, off),
                           !.vert_idx_offset = @ + n]

RECURSIVE PackLoop(_, _, _, _)
PackLoop(st, subsets, i, orig) ==
  IF st.err # "" \/ i > Len(subsets) THEN st
  ELSE PackLoop(PackStep(st, subsets, subsets[i], orig), subsets, i + 1, orig)

\* pack(subsets, orig_lsb_data)
pack(subsets, orig) ==
  LET st == PackLoop(PackStart, subsets, 1, orig)
  IN IF st.err # "" THEN Failed(st.err)
     ELSE LET fin == flush(st, subsets, orig)
          IN [err |-> "", nodes |-> fin.new_subset_nodes, lsb |-> fin.new_lsb_data]

\* ------------------------------------------------------------------- unpack
\* unpack's locals at function entry; start is lsb_data_start / tri_idx_start
UnpackStart(first) ==
  [err |-> "", vert_idx_offset |-> 0, start |-> first,
   new_lsb_data |-> <<>>, new_subset_nodes |-> <<>>]

\* the bound the assertion compares max_vertex_index with (lines 123, 158)
VertexLimit(subset, orig) ==
  IF orig.some THEN subset.verts[2] - subset.verts[1] ELSE BLen(subset.verts)

\* lines 119-143: one segment of the binary layout, ending at byte lsb_data_end
UnpackSegBin(st, subset, orig, lsb_data_end) ==
  LET seg == Slice(orig.b, st.start, lsb_data_end)
      facedata == iter_unpack(seg)
      off == st.vert_idx_offset
  IN IF ~IterUnpackOK(seg) THEN [st EXCEPT !.err = "struct.error"]
     ELSE IF facedata = <<>> THEN [st EXCEPT !.err = "ValueError"]
     ELSE LET max_vertex_index == MaxIndexOf(facedata)
          IN IF ~(max_vertex_index < VertexLimit(subset, orig))
             THEN [st EXCEPT !.err = "AssertionError"]
             ELSE IF \E i \in 1..Len(facedata) : ~PackOK(Shift(facedata[i], 0 - off))
             THEN [st EXCEPT !.err = "struct.error"]
             ELSE [st EXCEPT
                     !.new_lsb_data =
                        Cat(Cat(@, Slice(orig.b,
                                         subset.verts[1] + VertexSize * off,
                                         subset.verts[1] + VertexSize * (max_vertex_index + 1))),
                            PackShifted(facedata, 0 - off)),
                     !.new_subset_nodes =
                        Append(@, [subset.node EXCEPT
                                     !.MeshV = max_vertex_index - off + 1,
                                     !.MeshI = Len(facedata) * 3]),
                     !.vert_idx_offset = max_vertex_index + 1,
                     !.start = lsb_data_end + FaceSize]

\* lines 113-117: for lsb_data_end in range(tris.start, tris.stop + 6, 6)
RECURSIVE UnpackBin(_, _, _, _)
UnpackBin(st, subset, orig, lsb_data_end) ==
  IF st.err # "" \/ lsb_data_end >= subset.tris[2] + FaceSize THEN st
  ELSE IF lsb_data_end # subset.tris[2]
          /\ Slice(orig.b, lsb_data_end, lsb_data_end + FaceSize) # LSB_SEPARATOR
       THEN UnpackBin(st, subset, orig, lsb_data_end + FaceSize)
       ELSE UnpackBin(UnpackSegBin(st, subset, orig, lsb_data_end),
                      subset, orig, lsb_data_end + FaceSize)

FaceInts(tris) == [i \in 1..Len(tris) |-> <<tris[i][1], tris[i][2], tris[i][3]>>]

\* lines 152-180: one segment of the inline layout, ending before face tri_idx_end
\* (tri_idx_start and tri_idx_end count from 0, as in the source)
UnpackSegXml(st, subset, tri_idx_end) ==
  LET facedata == FaceInts(SubSeq(subset.tris, st.start + 1, tri_idx_end))
      off == st.vert_idx_offset
  IN IF facedata = <<>> THEN [st EXCEPT !.err = "ValueError"]
     ELSE LET max_vertex_index == MaxIndexOf(facedata)
          IN IF ~(max_vertex_index < VertexLimit(subset, [some |-> FALSE, b |-> <<>>]))
             THEN [st EXCEPT !.err = "AssertionError"]
             ELSE [st EXCEPT
                     !.new_subset_nodes =
                        Append(@, [subset.node EXCEPT
                                     !.verts = Slice(subset.verts, off, max_vertex_index + 1),
                                     !.tris = ShiftFaces(FaceInts(SubSeq(subset.tris,
                                                 st.start + 1, tri_idx_end)), 0 - off)]),
                     !.vert_idx_offset = max_vertex_index + 1,
                     !.start = tri_idx_end + 1]

\* lines 147-151: for tri_idx_end in range(len(subset.tris) + 1)
RECURSIVE UnpackXml(_, _, _)
UnpackXml(st, subset, tri_idx_end) ==
  IF st.err # "" \/ tri_idx_end > Len(subset.tris) THEN st
  ELSE IF tri_idx_end # Len(subset.tris) /\ subset.tris[tri_idx_end + 1] # XML_SEPARATOR
       THEN UnpackXml(st, subset, tri_idx_end + 1)
       ELSE UnpackXml(UnpackSegXml(st, subset, tri_idx_end), subset, tri_idx_end + 1)

\* unpack(subset, orig_lsb_data)
unpack(subset, orig) ==
  LET st == IF orig.some
            THEN UnpackBin(UnpackStart(subset.tris[1]), subset, orig, subset.tris[1])
            ELSE UnpackXml(UnpackStart(0), subset, 0)
  IN IF st.err # "" THEN Failed(st.err)
     ELSE [err |-> "", nodes |-> st.new_subset_nodes, lsb |-> st.new_lsb_data]

\* ------------------------------------------------------------- orchestrator
None == [some |-> FALSE, b |-> <<>>]

Some(b) == [some |-> TRUE, b |-> b]

\* calc_subset_key(subset_node): a node's attributes other than MeshV / MeshI
\* and its non-geometry children are represented by the key they produce
calc_subset_key(subset_node) == subset_node.key

\* the same with a new key put in front of the others
GroupAppendFront(groups, key, subset) ==
  IF \E i \in 1..Len(groups) : groups[i].key = key
  THEN [i \in 1..Len(groups) |->
          IF groups[i].key = key
          THEN [groups[i] EXCEPT !.subsets = Append(@, subset)]
          ELSE groups[i]]
  ELSE <<[key |-> key, subsets |-> <<subset>>]>> \o groups

\* subsets_by_key[key].append(subset) on a defaultdict(list)
GroupAppend(groups, key, subset) ==
  IF \E i \in 1..Len(groups) : groups[i].key = key
  THEN [i \in 1..Len(groups) |->
          IF groups[i].key = key
          THEN [groups[i] EXCEPT !.subsets = Append(@, subset)]
          ELSE groups[i]]
  ELSE Append(groups, [key |-> key, subsets |-> <<subset>>])

\* lines 207-228: the loop over subset_nodes
RECURSIVE SliceLoop(_, _, _, _)
SliceLoop(st, nodes, i, orig) ==
  IF i > Len(nodes) THEN st
  ELSE LET subset_node == nodes[i]
       IN IF orig.some
          THEN LET num_vertices == subset_node.MeshV
                   num_tris == subset_node.MeshI
                   tris_offset == st.lsb_offset + num_vertices * VertexSize
                   lsb_offset_neu == tris_offset + num_tris * IndexSize
               IN SliceLoop([groups |-> GroupAppend(st.groups, calc_subset_key(subset_node),
                                         [node |-> subset_node,
                                          verts |-> <<st.lsb_offset, tris_offset>>,
                                          tris |-> <<tris_offset, lsb_offset_neu>>]),
                             lsb_offset |-> lsb_offset_neu],
                            nodes, i + 1, orig)
          ELSE SliceLoop([groups |-> GroupAppend(st.groups, calc_subset_key(subset_node),
                                         [node |-> subset_node,
                                          verts |-> subset_node.verts,
                                          tris |-> subset_node.tris]),
                          lsb_offset |-> st.lsb_offset],
                         nodes, i + 1, orig)

\* line 229: "if lsb_data:" -- the buffer exists and is not empty
SizeIsChecked(orig) == orig.some /\ BLen(orig.b) > 0

\* lines 243-247: the loop over the subsets of one group in unpack mode
RECURSIVE UnpackGroup(_, _, _, _)
UnpackGroup(acc, subsets, i, orig) ==
  IF acc.err # "" \/ i > Len(subsets) THEN acc
  ELSE LET r == unpack(subsets[i], orig)
       IN IF r.err # "" THEN Failed(r.err)
          ELSE UnpackGroup([err |-> "", nodes |-> acc.nodes \o r.nodes,
                            lsb |-> Cat(acc.lsb, r.lsb)],
                           subsets, i + 1, orig)

IsPackMode(m) == m \in {"pack", "dry_pack"}

\* lines 237-247: what one iteration of the loop over the groups computes
TransformOf(m, subsets, orig) ==
  IF IsPackMode(m) THEN pack(subsets, orig)
  ELSE UnpackGroup([err |-> "", nodes |-> <<>>, lsb |-> <<>>], subsets, 1, orig)

\* sum(40 * MeshV + 2 * MeshI for subset_node in nodes)
RECURSIVE DeclaredBytes(_)
DeclaredBytes(nodes) ==
  IF nodes = <<>> THEN 0
  ELSE VertexSize * Head(nodes).MeshV + IndexSize * Head(nodes).MeshI
       + DeclaredBytes(Tail(nodes))

\* the assertion as an upper bound only
AccountingAtMost(buf, nodes) == BLen(buf) <= DeclaredBytes(nodes)

\* lines 248-252: the assertion on the new buffer
AccountingHolds(buf, nodes) == BLen(buf) = DeclaredBytes(nodes)

\* the comparison made with the number of groups instead of the number of nodes
UnchangedVsGroups(old_nodes, new_nodes) == Len(subsets_by_key) = Len(new_nodes)

\* line 253
Unchanged(old_nodes, new_nodes) == Len(old_nodes) = Len(new_nodes)

\* the end of the loop body: on to the next file of sys.argv[2:]
NextFile ==
  /\ argv_left' = argv_left - 1
  /\ pc' = IF argv_left > 1 THEN "parse" ELSE "done"

\* lines 188-205
ParseFile ==
  /\ pc = "parse"
  /\ subsets_by_key' = <<>>
  /\ lsb_offset' = 0
  /\ subset_nodes' = disk_ls3
  /\ IF disk_ls3 = <<>>
     THEN /\ log' = Append(log, "Keine Subsets")
          /\ NextFile
          /\ UNCHANGED lsb_data
     ELSE /\ lsb_data' = disk_lsb
          /\ pc' = "slice"
          /\ UNCHANGED <<argv_left, log>>
  /\ UNCHANGED <<argv_mode, disk_ls3, disk_lsb, grp, new_subset_nodes, new_lsb_data>>

\* lines 207-235
SliceSubsets ==
  /\ pc = "slice"
  /\ LET st == SliceLoop([groups |-> <<>>, lsb_offset |-> lsb_offset],
                         subset_nodes, 1, lsb_data)
     IN /\ subsets_by_key' = st.groups
        /\ lsb_offset' = st.lsb_offset
        /\ IF SizeIsChecked(lsb_data) /\ st.lsb_offset # BLen(lsb_data.b)
           THEN /\ pc' = "aborted"
                /\ UNCHANGED <<new_lsb_data, new_subset_nodes, grp>>
           ELSE /\ pc' = "transform"
                /\ new_lsb_data' = IF lsb_data.some THEN Some(<<>>) ELSE None
                /\ new_subset_nodes' = <<>>
                /\ grp' = 1
  /\ UNCHANGED <<argv_mode, argv_left, disk_ls3, disk_lsb, subset_nodes, lsb_data, log>>

\* lines 236-247: one iteration of the loop over subsets_by_key.values()
TransformGroup ==
  /\ pc = "transform"
  /\ LET r == TransformOf(argv_mode, subsets_by_key[grp].subsets, lsb_data)
     IN IF r.err # ""
        THEN /\ pc' = "aborted"
             /\ UNCHANGED <<new_subset_nodes, new_lsb_data, grp>>
        ELSE /\ new_subset_nodes' = new_subset_nodes \o r.nodes
             /\ new_lsb_data' = IF new_lsb_data.some
                                 THEN Some(Cat(new_lsb_data.b, r.lsb))
                                 ELSE new_lsb_data
             /\ grp' = grp + 1
             /\ pc' = IF grp = Len(subsets_by_key) THEN "account" ELSE "transform"
  /\ UNCHANGED <<argv_mode, argv_left, disk_ls3, disk_lsb, subset_nodes, lsb_data,
                 subsets_by_key, lsb_offset, log>>

\* lines 248-252
CheckAccounting ==
  /\ pc = "account"
  /\ pc' = IF new_lsb_data.some /\ ~AccountingHolds(new_lsb_data.b, new_subset_nodes)
            THEN "aborted" ELSE "report"
  /\ UNCHANGED <<argv_mode, argv_left, disk_ls3, disk_lsb, subset_nodes, lsb_data,
                 subsets_by_key, lsb_offset, grp, new_subset_nodes, new_lsb_data, log>>

\* lines 253-271
Report ==
  /\ pc = "report"
  /\ IF Unchanged(subset_nodes, new_subset_nodes)
     THEN /\ log' = Append(log, "Keine Aenderungen")
          /\ UNCHANGED <<disk_ls3, disk_lsb>>
     ELSE IF argv_mode \in {"dry_pack", "dry_unpack"}
     THEN /\ log' = Append(log, "nicht gespeichert")
          /\ UNCHANGED <<disk_ls3, disk_lsb>>
     ELSE /\ log' = Append(log, "gespeichert")
          /\ disk_ls3' = new_subset_nodes
          /\ disk_lsb' = IF new_lsb_data.some THEN new_lsb_data ELSE disk_lsb
  /\ NextFile
  /\ UNCHANGED <<argv_mode, subset_nodes, lsb_data, subsets_by_key, lsb_offset, grp,
                 new_subset_nodes, new_lsb_data>>

\* ------------------------------------------------------------------ inputs
MaxSubsets == 2
MaxSeqSubsets == 3
MaxArgs == 2

Modes == {"pack", "unpack", "dry_pack", "dry_unpack"}

Shape(n, faces) == [n |-> n, faces |-> faces]

\* small subsets: a well-formed one, one without triangles, one whose triangle
\* refers to a vertex it does not have, a composite of two pieces, one without
\* vertices, and one whose last vertex no triangle refers to
SmallShapes ==
  { Shape(2, << <<0, 1, 1>> >>),
    Shape(1, <<>>),
    Shape(1, << <<1, 0, 0>> >>),
    Shape(4, << <<0, 1, 0>>, <<0, 0, 0>>, <<2, 3, 2>> >>),
    Shape(0, <<>>),
    Shape(3, << <<0, 1, 0>> >>) }

\* subsets around the ceiling
BigShapes ==
  { Shape(n, << <<0, n - 2, n - 1>> >>) :
      n \in {Ceiling \div 2 - 1, Ceiling \div 2, Ceiling - 1, Ceiling} }
  \cup { Shape(0, <<>>) }

\* two well-formed subsets, the second a composite, for documents whose keys vary
KeyedShapes ==
  { Shape(2, << <<0, 1, 1>> >>),
    Shape(4, << <<0, 1, 0>>, <<0, 0, 0>>, <<2, 3, 2>> >>) }

\* a document: the key and the geometry of each SubSet node, in document order
Docs(keys, shapes, max) ==
  UNION { [1..m -> keys \X shapes] : m \in 0..max }

RECURSIVE WordsOf(_)
WordsOf(faces) ==
  IF faces = <<>> THEN <<>> ELSE facestruct_pack(Head(faces)) \o WordsOf(Tail(faces))

\* the .lsb file that belongs to the document: per subset its vertex records,
\* then its triangle indices
RECURSIVE LsbOf(_, _)
LsbOf(doc, i) ==
  IF i > Len(doc) THEN <<>>
  ELSE Cat(Cat(VRun(i, 0, VertexSize * doc[i][2].n), WordsOf(doc[i][2].faces)),
           LsbOf(doc, i + 1))

\* the SubSet nodes of the document, for a file with (binary) or without an .lsb
NodesOf(doc, binary) ==
  [i \in 1..Len(doc) |->
     IF binary
     THEN [key |-> doc[i][1], MeshV |-> doc[i][2].n, MeshI |-> 3 * Len(doc[i][2].faces),
           verts |-> <<>>, tris |-> <<>>]
     ELSE [key |-> doc[i][1], MeshV |-> 0, MeshI |-> 0,
           verts |-> VRun(i, 0, doc[i][2].n),
           tris |-> [k \in 1..Len(doc[i][2].faces) |->
                       <<doc[i][2].faces[k][1], doc[i][2].faces[k][2],
                         doc[i][2].faces[k][3], TRUE>>]]]

\* the .lsb files tried with a document: none, the one that belongs to it, an
\* empty one, and one with two bytes too many
LsbKinds == {"none", "exact", "empty", "long"}

LsbFile(doc, kind) ==
  IF kind = "none" THEN None
  ELSE IF kind = "exact" THEN Some(LsbOf(doc, 1))
  ELSE IF kind = "empty" THEN Some(<<>>)
  ELSE Some(LsbOf(doc, 1) \o <<Word(0)>>)

InitWith(docs, kinds) ==
  /\ argv_mode \in Modes
  /\ argv_left = MaxArgs
  /\ \E doc \in docs, kind \in kinds :
       /\ disk_ls3 = NodesOf(doc, kind # "none")
       /\ disk_lsb = LsbFile(doc, kind)
  /\ pc = "parse"
  /\ subset_nodes = <<>>
  /\ lsb_data = None
  /\ subsets_by_key = <<>>
  /\ lsb_offset = 0
  /\ grp = 1
  /\ new_subset_nodes = <<>>
  /\ new_lsb_data = None
  /\ log = <<>>

Init ==
  \/ InitWith(Docs({1}, SmallShapes, MaxSubsets), LsbKinds)
  \/ InitWith(Docs({1}, BigShapes, MaxSeqSubsets), {"none", "exact"})
  \/ InitWith(Docs({1, 2}, KeyedShapes, MaxSeqSubsets), {"none", "exact"})

Next == ParseFile \/ SliceSubsets \/ TransformGroup \/ CheckAccounting \/ Report

Spec == Init /\ [][Next]_vars

\* ------------------------------------------------------------ properties
\* the vertex count of a node: its MeshV with an .lsb, its Vertex children without
VertexCountOf(node, orig) == IF orig.some THEN node.MeshV ELSE BLen(node.verts)

\* the groups the loop of line 236 has passed without an abort
DoneGroups == IF pc \in {"transform", "account", "report"} THEN 1..(grp - 1) ELSE {}

RECURSIVE SumMeshV(_)
SumMeshV(nodes) == IF nodes = <<>> THEN 0 ELSE Head(nodes).MeshV + SumMeshV(Tail(nodes))

RECURSIVE SumMeshI(_)
SumMeshI(nodes) == IF nodes = <<>> THEN 0 ELSE Head(nodes).MeshI + SumMeshI(Tail(nodes))

\* C2: every subset pack returns has fewer than 32768 vertices, and pack returns
\* nothing for a group that holds a subset of 32768 vertices or more
CeilingInvariant ==
  (IsPackMode(argv_mode) /\ pc \in {"transform", "account", "report"}) =>
    /\ \A i \in 1..Len(new_subset_nodes) :
         VertexCountOf(new_subset_nodes[i], lsb_data) < Ceiling
    /\ \A g \in DoneGroups : \A j \in 1..Len(subsets_by_key[g].subsets) :
         NumVertices(subsets_by_key[g].subsets[j], lsb_data) < Ceiling

\* a pack run over three subsets that flushed at the ceiling: two nodes came out,
\* one of them with 32767 vertices
CeilingWitness ==
  /\ IsPackMode(argv_mode) /\ pc = "report"
  /\ Len(subset_nodes) = 3 /\ Len(new_subset_nodes) = 2
  /\ \E i \in 1..2 : VertexCountOf(new_subset_nodes[i], lsb_data) = Ceiling - 1

\* C3: with an .lsb, the new buffer of every result the run accepts is
\* 40 * sum(MeshV) + 2 * sum(MeshI) bytes long
AccountingInvariant ==
  (pc \in {"report", "parse", "done"} /\ new_lsb_data.some) =>
    BLen(new_lsb_data.b) =
      VertexSize * SumMeshV(new_subset_nodes) + IndexSize * SumMeshI(new_subset_nodes)

\* an accepted unpack result that split a composite subset
AccountingWitness ==
  /\ pc = "report" /\ new_lsb_data.some /\ ~IsPackMode(argv_mode)
  /\ Len(new_subset_nodes) > Len(subset_nodes)
  /\ BLen(new_lsb_data.b) > 0

\* the distinct keys of a node list, in the order of their first occurrence
RECURSIVE FirstSeenKeys(_)
FirstSeenKeys(nodes) ==
  IF nodes = <<>> THEN <<>>
  ELSE LET before == FirstSeenKeys(SubSeq(nodes, 1, Len(nodes) - 1))
           k == nodes[Len(nodes)].key
       IN IF \E i \in 1..Len(before) : before[i] = k THEN before ELSE Append(before, k)

\* the i-th subset of the document as the run reads it: with an .lsb, its byte
\* ranges follow from the sizes the nodes before it declare
DocSubset(nodes, i, orig) ==
  IF orig.some
  THEN LET off == DeclaredBytes(SubSeq(nodes, 1, i - 1))
           mid == off + VertexSize * nodes[i].MeshV
       IN [node |-> nodes[i], verts |-> <<off, mid>>,
           tris |-> <<mid, mid + IndexSize * nodes[i].MeshI>>]
  ELSE [node |-> nodes[i], verts |-> nodes[i].verts, tris |-> nodes[i].tris]

\* the subsets of one key, in document order
RECURSIVE SubsetsOfKey(_, _, _, _)
SubsetsOfKey(nodes, k, i, orig) ==
  IF i > Len(nodes) THEN <<>>
  ELSE (IF nodes[i].key = k THEN <<DocSubset(nodes, i, orig)>> ELSE <<>>)
       \o SubsetsOfKey(nodes, k, i + 1, orig)

\* the results of the groups, in the order of keys, one after the other
RECURSIVE ResultsInOrder(_, _)
ResultsInOrder(keys, j) ==
  IF j > Len(keys) THEN [nodes |-> <<>>, lsb |-> <<>>, starts |-> <<>>]
  ELSE LET r == TransformOf(argv_mode, SubsetsOfKey(subset_nodes, keys[j], 1, lsb_data),
                            lsb_data)
           rest == ResultsInOrder(keys, j + 1)
       IN [nodes |-> r.nodes \o rest.nodes,
           lsb |-> Cat(r.lsb, rest.lsb),
           starts |-> <<Len(r.nodes)>> \o rest.starts]

\* the bytes of the new buffer that the i-th new node declares as its own
RegionOf(nodes, buf, i) ==
  LET off == DeclaredBytes(SubSeq(nodes, 1, i - 1))
  IN Slice(buf, off, off + DeclaredBytes(<<nodes[i]>>))

\* the regions of nodes first..last, one after the other
RECURSIVE RegionsOf(_, _, _, _)
RegionsOf(nodes, buf, first, last) ==
  IF first > last THEN <<>>
  ELSE Cat(RegionOf(nodes, buf, first), RegionsOf(nodes, buf, first + 1, last))

\* C7: the new node list is the groups' results one after the other, the groups
\* in the order in which their keys first occur in the document and each group
\* in document order; with an .lsb the new buffer holds the regions of the new
\* nodes in the order of the nodes
OutputOrdering ==
  (pc = "report") =>
    LET keys == FirstSeenKeys(subset_nodes)
        want == ResultsInOrder(keys, 1)
    IN /\ new_subset_nodes = want.nodes
       /\ new_lsb_data.some =>
            /\ new_lsb_data.b = want.lsb
            /\ \A g \in 1..Len(keys) :
                 LET r == TransformOf(argv_mode,
                                      SubsetsOfKey(subset_nodes, keys[g], 1, lsb_data),
                                      lsb_data)
                     n0 == Len(ResultsInOrder(SubSeq(keys, 1, g - 1), 1).nodes)
                 IN RegionsOf(new_subset_nodes, new_lsb_data.b, n0 + 1, n0 + Len(r.nodes))
                      = r.lsb

\* an accepted result for a document whose keys are 2, 1, 2 in this order
OrderingWitness ==
  /\ pc = "report" /\ new_lsb_data.some
  /\ Len(subset_nodes) = 3
  /\ subset_nodes[1].key = 2 /\ subset_nodes[2].key = 1 /\ subset_nodes[3].key = 2
  /\ Len(new_subset_nodes) >= 2
  /\ new_subset_nodes[1].key = 2

SizesAgree == lsb_data.some => BLen(lsb_data.b) = DeclaredBytes(subset_nodes)

\* the triangles of a subset, as index triples
FacesOf(subset, orig) ==
  IF orig.some THEN iter_unpack(Slice(orig.b, subset.tris[1], subset.tris[2]))
  ELSE FaceInts(subset.tris)

\* the vertex records of a subset
VertsOf(subset, orig) ==
  IF orig.some THEN Slice(orig.b, subset.verts[1], subset.verts[2]) ELSE subset.verts

\* whether the k-th triangle of a subset is a separator
IsSeparator(subset, orig, k) ==
  IF orig.some THEN FacesOf(subset, orig)[k] = <<0, 0, 0>>
  ELSE subset.tris[k] = XML_SEPARATOR

\* the subsets a result describes, read back as the run reads a file
ReadBack(r, orig) ==
  LET back == IF orig.some THEN Some(r.lsb) ELSE None
  IN [i \in 1..Len(r.nodes) |-> DocSubset(r.nodes, i, back)]

\* the geometry of subset a (of buffer x) and of subset b (of buffer y) agree
SameGeometry(a, x, b, y) ==
  /\ NumVertices(a, x) = NumVertices(b, y)
  /\ VertsOf(a, x) = VertsOf(b, y)
  /\ FacesOf(a, x) = FacesOf(b, y)

RECURSIVE SumVertices(_, _)
SumVertices(subsets, orig) ==
  IF subsets = <<>> THEN 0
  ELSE NumVertices(Head(subsets), orig) + SumVertices(Tail(subsets), orig)

\* unpack of the one composite subset that pack made of the group gives the
\* group back
RoundTripOf(subsets, orig) ==
  LET p == pack(subsets, orig)
  IN (p.err = "") =>
       /\ Len(p.nodes) = 1
       /\ LET back == IF orig.some THEN Some(p.lsb) ELSE None
              u == unpack(ReadBack(p, orig)[1], back)
          IN /\ u.err = ""
             /\ Len(u.nodes) = Len(subsets)
             /\ \A i \in 1..Len(u.nodes) :
                  i <= Len(subsets) =>
                    SameGeometry(ReadBack(u, orig)[i],
                                 IF orig.some THEN Some(u.lsb) ELSE None,
                                 subsets[i], orig)

\* C1: for a group of subsets of one key with fewer than 32768 vertices in
\* all, unpack of what pack returns yields as many subsets as the group has, in
\* the same order, each with the vertex count, the vertex records and the
\* triangles of the subset it came from
RoundTrip ==
  (IsPackMode(argv_mode) /\ pc = "transform" /\ SizesAgree) =>
    LET subsets == subsets_by_key[grp].subsets
    IN SumVertices(subsets, lsb_data) < Ceiling => RoundTripOf(subsets, lsb_data)

\* C4: unpack aborts whenever a segment of a subset's triangles refers to a
\* vertex index that is not below the subset's vertex count, with and without
\* an .lsb: no group passes the loop with such a subset in it.  (The largest
\* index of a segment is out of range exactly when one of its triangles, none
\* of them a separator, holds an index that is.)
UnpackRangeCheck ==
  (~IsPackMode(argv_mode) /\ SizesAgree) =>
    \A g \in DoneGroups : \A j \in 1..Len(subsets_by_key[g].subsets) :
      LET subset == subsets_by_key[g].subsets[j]
          faces == FacesOf(subset, lsb_data)
      IN \A k \in 1..Len(faces) :
           IsSeparator(subset, lsb_data, k)
             \/ Max3(faces[k]) < NumVertices(subset, lsb_data)

\* the .lsb on disk is not as long as the nodes on disk declare
DiskSizeMismatch == disk_lsb.some /\ BLen(disk_lsb.b) # DeclaredBytes(disk_ls3)

\* C5: while the .lsb is not as long as the .ls3 declares, an empty .lsb
\* included, no step of the run writes the .ls3 or the .lsb
AbortBeforeWrite ==
  [][DiskSizeMismatch => (disk_ls3' = disk_ls3 /\ disk_lsb' = disk_lsb)]_vars

\* a byte string made of whole vertex records only
WholeVertices(b) ==
  \A i \in 1..Len(b) :
    b[i][1] = "V" /\ b[i][3] % VertexSize = 0 /\ b[i][4] % VertexSize = 0

\* the Vertex elements that whole vertex records stand for
VertexElements(b) ==
  [i \in 1..Len(b) |-> <<"V", b[i][2], b[i][3] \div VertexSize, b[i][4] \div VertexSize>>]

\* the subset of the inline layout with the geometry of a subset of the binary one
InlineTwin(subset, orig) ==
  LET v == VertexElements(VertsOf(subset, orig))
      f == [k \in 1..Len(FacesOf(subset, orig)) |->
              <<FacesOf(subset, orig)[k][1], FacesOf(subset, orig)[k][2],
                FacesOf(subset, orig)[k][3], TRUE>>]
  IN [node |-> [subset.node EXCEPT !.MeshV = 0, !.MeshI = 0, !.verts = v, !.tris = f],
      verts |-> v, tris |-> f]

\* a result of the binary layout and one of the inline layout are the same outcome
SameOutcome(rb, ri) ==
  /\ (rb.err = "") <=> (ri.err = "")
  /\ (rb.err = "" /\ ri.err = "") =>
       /\ Len(rb.nodes) = Len(ri.nodes)
       /\ \A i \in 1..Len(rb.nodes) :
            i <= Len(ri.nodes) =>
              LET b == ReadBack(rb, Some(<<>>))[i]
              IN /\ WholeVertices(VertsOf(b, Some(rb.lsb)))
                 /\ VertexElements(VertsOf(b, Some(rb.lsb))) = ri.nodes[i].verts
                 /\ FacesOf(b, Some(rb.lsb)) = FaceInts(ri.nodes[i].tris)

\* C6: on the same subsets, vertices and triangles, pack and unpack end the
\* same way with and without an .lsb: both abort, or both return the same
\* number of subsets with the same vertices and the same triangles
VariantEquivalence ==
  (pc = "transform" /\ lsb_data.some /\ SizesAgree
     /\ \A j \in 1..Len(subsets_by_key[grp].subsets) :
          WholeVertices(VertsOf(subsets_by_key[grp].subsets[j], lsb_data))) =>
    LET subsets == subsets_by_key[grp].subsets
        twins == [j \in 1..Len(subsets) |-> InlineTwin(subsets[j], lsb_data)]
    IN SameOutcome(TransformOf(argv_mode, subsets, lsb_data),
                   TransformOf(argv_mode, twins, None))

\* the pieces of each output subset: pack starts a new one when the vertex
\* count of the pieces gathered so far and of the next piece reaches the ceiling
RECURSIVE RunsOf(_, _, _, _)
RunsOf(subsets, i, run, orig) ==
  IF i > Len(subsets) THEN <<run>>
  ELSE IF SumVertices(run, orig) + NumVertices(subsets[i], orig) >= Ceiling
       THEN <<run>> \o RunsOf(subsets, i + 1, <<subsets[i]>>, orig)
       ELSE RunsOf(subsets, i + 1, Append(run, subsets[i]), orig)

ShiftAll(faces, d) == [k \in 1..Len(faces) |-> Shift(faces[k], d)]

\* the triangles of p1, then for each later piece one separator and the
\* piece's triangles raised by the vertex count of the pieces before it
RECURSIVE JoinedFaces(_, _, _)
JoinedFaces(run, j, orig) ==
  IF j > Len(run) THEN <<>>
  ELSE (IF j = 1 THEN FacesOf(run[1], orig)
        ELSE << <<0, 0, 0>> >>
             \o ShiftAll(FacesOf(run[j], orig), SumVertices(SubSeq(run, 1, j - 1), orig)))
       \o JoinedFaces(run, j + 1, orig)

\* C9: every subset pack returns holds the triangles of its first piece as
\* they are and, for each later piece, one separator and the piece's triangles
\* raised by the vertex count of the pieces before it; its vertex count is the
\* sum of the pieces' and its index count the sum of the pieces' plus 3 for
\* each piece after the first
PackStructure ==
  (IsPackMode(argv_mode) /\ pc = "transform" /\ SizesAgree) =>
    LET subsets == subsets_by_key[grp].subsets
        r == pack(subsets, lsb_data)
        runs == RunsOf(subsets, 2, <<subsets[1]>>, lsb_data)
        back == IF lsb_data.some THEN Some(r.lsb) ELSE None
    IN (r.err = "") =>
         /\ Len(r.nodes) = Len(runs)
         /\ \A o \in 1..Len(r.nodes) :
              o <= Len(runs) =>
                LET out == ReadBack(r, lsb_data)[o]
                IN /\ FacesOf(out, back) = JoinedFaces(runs[o], 1, lsb_data)
                   /\ VertexCountOf(r.nodes[o], lsb_data)
                        = SumVertices(runs[o], lsb_data)
                   /\ Len(FacesOf(out, back)) * 3
                        = SumMeshI([j \in 1..Len(runs[o]) |->
                                     [MeshI |-> 3 * Len(FacesOf(runs[o][j], lsb_data))]])
                          + 3 * (Len(runs[o]) - 1)

\* C10: unpack of a subset without a separator among its triangles, all of
\* whose indices are below its vertex count, ends without an error and returns
\* one subset with the vertex count, the vertex records and the triangles
\* of the subset it was given
UnpackPassThrough ==
  (~IsPackMode(argv_mode) /\ pc = "transform" /\ SizesAgree) =>
    \A j \in 1..Len(subsets_by_key[grp].subsets) :
      LET subset == subsets_by_key[grp].subsets[j]
          faces == FacesOf(subset, lsb_data)
          u == unpack(subset, lsb_data)
      IN (\A k \in 1..Len(faces) :
            /\ ~IsSeparator(subset, lsb_data, k)
            /\ Max3(faces[k]) < NumVertices(subset, lsb_data)
            /\ \A c \in 1..3 : faces[k][c] >= 0) =>
           /\ u.err = ""
           /\ Len(u.nodes) = 1
           /\ SameGeometry(ReadBack(u, lsb_data)[1],
                           IF lsb_data.some THEN Some(u.lsb) ELSE None,
                           subset, lsb_data)

====
